---- MODULE Spec2Model ----
(***************************************************************************)
(* Stock Pilot: the inventory store mutations of                           *)
(* src/services/inventoryService.ts and the voice slot-filling interpreter *)
(* of src/components/InventoryManager.tsx.                                 *)
(*                                                                         *)
(* Every asynchronous function is a task: a record holding the function's  *)
(* arguments, its locals and its position (pc).  One action is the code    *)
(* between two awaits, which JavaScript runs without interruption; tasks   *)
(* interleave at the awaits.                                               *)
(***************************************************************************)
EXTENDS Integers, Sequences, FiniteSets, TLC

(***************************************************************************)
(* Bounds of the model.                                                    *)
(***************************************************************************)
\* Number of task records: the calls of one behaviour of SpecStore.
MaxTasks == 3
\* Handlers in flight at once in Spec.
MaxHandlers == 1
\* Document ids the store hands out.
MaxDocs == 3
\* Largest quantity a voice or manual add may build up in one record.
MaxQty == 4

TaskIds == 1..MaxTasks
DocIds == 1..MaxDocs

(***************************************************************************)
(* Values.                                                                 *)
(***************************************************************************)
\* Item names as callers give them: "Pepsi" is the stored "pepsi" in another
\* case, "Milk" is not stored at first.
ItemNames == {"Pepsi", "Milk"}
\* Arguments of the direct calls of the store functions.
AddQuantities == {-1, 1, 2}
RemoveQuantities == {1, 2, 3}
Prices == {10, 20}
\* Arguments of the tool calls and of the manual add; quantity 0 stands for
\* an initiateAddItem without a quantity.
HandlerQuantities == {2}
HandlerRemoveQuantities == {2, 3}
HandlerPrices == {10}
\* Expiry dates a tool call gives: DD-MM-YYYY, one with month 13, and
\* YYYY-MM-DD.
HandlerDates == {<<31, 12, 2025>>, <<31, 13, 2025>>, <<2025, 12, 31>>}

\* DD-MM-YYYY strings, as <<DD, MM, YYYY>>; the empty string (falsy) is <<>>.
NoExpiry == <<>>

\* A field a document does not carry.
Undefined == "undefined"

\* String.prototype.toLowerCase on the names of the model.
ToLowerCase(s) ==
    CASE s = "Pepsi" -> "pepsi"
      [] s = "Milk" -> "milk"
      [] OTHER -> s

\* The inventory a behaviour starts from: one stored item.
SeedId == 1
SeedName == "pepsi"
SeedQuantity == 2
SeedPrice == 5

(***************************************************************************)
(* State.                                                                  *)
(***************************************************************************)
VARIABLES
    store,                    \* users/{uid}/inventory: document id -> data
    nextId,                   \* ids doc(itemRef) has not handed out yet
    tasks,                    \* the asynchronous calls, by task id
    awaitingPriceInfoRef,     \* pending slot {itemName, quantity}
    awaitingQuantityInfoRef,  \* pending slot {itemName}
    awaitingExpiryInfoRef,    \* pending slot {itemName, quantity, price}
    inventoryRef,             \* ids of the items of the last snapshot delivered
    userProfile,              \* the profile of the current render
    sessionProfile,           \* the profile the live session's callbacks closed over
    isSessionActiveRef,       \* isSessionActiveRef.current
    selectedItemIds,          \* the selection set
    audio,                    \* the voice session: flags, positions, resources
    playback,                 \* the playback of the synthesized audio chunks
    pendingUsage,             \* the profiles captured by AI calls still in flight
    toolResponse              \* the functionResponse the last step gave to sendToolResponse

vars == <<store, nextId, tasks, awaitingPriceInfoRef, awaitingQuantityInfoRef,
          awaitingExpiryInfoRef, inventoryRef, userProfile, sessionProfile,
          isSessionActiveRef, selectedItemIds, audio, playback, pendingUsage,
          toolResponse>>

slotVars == <<awaitingPriceInfoRef, awaitingQuantityInfoRef, awaitingExpiryInfoRef>>
mediaVars == <<audio, playback, pendingUsage>>
uiVars == <<inventoryRef, userProfile, sessionProfile, isSessionActiveRef,
            selectedItemIds, mediaVars>>

(***************************************************************************)
(* Inventory documents (src/types.ts, InventoryItem).                      *)
(***************************************************************************)
\* new Date(YYYY, MM - 1, DD) with setHours(23, 59, 59, 999): the calendar day
\* the timestamp falls on, as <<YYYY, MM, DD>>.  The Date constructor carries a
\* month past 12 into the next year.
ExpiryTimestampOf(date) ==
    IF Len(date) # 3 THEN <<>>
    ELSE LET dd == date[1]
             m0 == date[2] - 1
             yy == date[3]
         IN  <<yy + (m0 \div 12), (m0 % 12) + 1, dd>>

\* newItemData of addOrUpdateItem: the document transaction.set writes.
NewItemData(normalizedItemName, quantity, price, expiryDate) ==
    [ name |-> normalizedItemName,
      quantity |-> quantity,
      price |-> price,
      expiryDate |-> expiryDate,
      expiryTimestamp |-> IF expiryDate # NoExpiry THEN ExpiryTimestampOf(expiryDate) ELSE <<>>,
      expiryStatus |-> IF expiryDate # NoExpiry THEN "none" ELSE Undefined,
      alertRules |-> IF expiryDate # NoExpiry THEN "notifyBeforeDays 7" ELSE Undefined,
      lastAlertedAt |-> Undefined ]

NewQuantityOverwrites(existingQuantity, quantity) == quantity

\* existingData.quantity + quantity, with existingData the document the
\* query snapshot returned.
NewQuantity(existingQuantity, quantity) == existingQuantity + quantity

UpdatedDataAlwaysExpiry(stored, existingQuantity, quantity, price, expiryDate) ==
    [ stored EXCEPT !.quantity = NewQuantity(existingQuantity, quantity),
                    !.price = price,
                    !.expiryDate = expiryDate,
                    !.expiryTimestamp = ExpiryTimestampOf(expiryDate),
                    !.expiryStatus = "none",
                    !.lastAlertedAt = "null" ]

\* updatedData of addOrUpdateItem merged into the stored document by
\* transaction.update: fields not named keep their stored value.
UpdatedData(stored, existingQuantity, quantity, price, expiryDate) ==
    IF expiryDate # NoExpiry
    THEN [ stored EXCEPT !.quantity = NewQuantity(existingQuantity, quantity),
                         !.price = price,
                         !.expiryDate = expiryDate,
                         !.expiryTimestamp = ExpiryTimestampOf(expiryDate),
                         !.expiryStatus = "none",
                         !.lastAlertedAt = "null" ]
    ELSE [ stored EXCEPT !.quantity = NewQuantity(existingQuantity, quantity),
                         !.price = price ]

\* query(itemsCollection, where("name", "==", n)): the ids of the matches.
QueryByName(st, n) == {d \in DOMAIN st : st[d].name = n}

RemoveDecisionUnchecked(currentQuantity, quantityToRemove) ==
    IF currentQuantity - quantityToRemove = 0 THEN "delete" ELSE "update"

\* What the transaction of removeItem does with the document it read.
RemoveDecision(currentQuantity, quantityToRemove) ==
    IF currentQuantity < quantityToRemove THEN "insufficient"
    ELSE IF currentQuantity - quantityToRemove = 0 THEN "delete"
    ELSE "update"

(***************************************************************************)
(* Tasks.                                                                  *)
(***************************************************************************)
NoSnap == [id |-> 0, quantity |-> 0]
\* What a store function gave its caller: nothing yet, a value, or an error.
Pending == [status |-> "pending", success |-> FALSE, message |-> ""]
Resolved(success, message) ==
    [status |-> "resolved", success |-> success, message |-> message]
Rejected == [status |-> "rejected", success |-> FALSE, message |-> "error"]
\* sendToolResponse was not called.
NoResponse == [id |-> 0, name |-> "", result |-> ""]
\* The result local of handleToolCall.
DefaultResult == [success |-> FALSE, message |-> "Sorry, I couldn't do that."]

IdleTask ==
    [ kind |-> "none", pc |-> "idle",
      direct |-> FALSE,         \* a store function called directly, not by a handler
      itemName |-> "", quantity |-> 0, price |-> 0, expiryDate |-> NoExpiry,
      ids |-> {},
      snap |-> NoSnap,          \* the document a query returned, 0 for none
      ret |-> Pending,          \* what the store function returned
      result |-> DefaultResult, \* the handler's result
      pred |-> {},              \* the calls that had returned when this one began
      rows |-> <<>>,            \* the draft rows of handleConfirmReview
      row |-> 0,                \* the row its loop is at
      cleanupPending |-> {},    \* ids whose notification cleanup was started
      cleanupFailed |-> {} ]    \* ids whose notification cleanup rejected

\* A step that sends no tool response.
Silent == toolResponse' = NoResponse

\* The lowest task record not in use.
FreeTask(t) ==
    /\ tasks[t].pc = "idle"
    /\ \A u \in TaskIds : u < t => tasks[u].pc # "idle"

Returned == {u \in TaskIds : tasks[u].pc = "done"}

\* The position after a store function returns: a direct call is over, a
\* handler resumes after its await.
AfterStore(task, resume) ==
    IF task.direct THEN "done"
    ELSE IF task.kind = "handleConfirmReview" THEN "review_ret"
    ELSE resume

(***************************************************************************)
(* addOrUpdateItem (src/services/inventoryService.ts).                     *)
(***************************************************************************)
\* const snapshot = await getDocs(q): a read outside the transaction.  The
\* ids are random strings, so which match is docs[0] is not determined.
AddRead(t) ==
    /\ tasks[t].pc = "add_read"
    /\ LET matches == QueryByName(store, ToLowerCase(tasks[t].itemName))
       IN  IF matches = {}
           THEN tasks' = [tasks EXCEPT ![t].snap = NoSnap, ![t].pc = "add_write"]
           ELSE \E d \in matches :
                   tasks' = [tasks EXCEPT
                               ![t].snap = [id |-> d, quantity |-> store[d].quantity],
                               ![t].pc = "add_write"]
    /\ UNCHANGED <<store, nextId, slotVars, uiVars>>
    /\ Silent

\* snapshot.empty: transaction.set(doc(itemRef), newItemData), then commit.
AddWriteSet(t) ==
    /\ tasks[t].pc = "add_write"
    /\ tasks[t].snap.id = 0
    /\ nextId <= MaxDocs
    /\ tasks[t].quantity <= MaxQty
    /\ store' = [d \in DOMAIN store \cup {nextId} |->
                    IF d = nextId
                    THEN NewItemData(ToLowerCase(tasks[t].itemName), tasks[t].quantity,
                                     tasks[t].price, tasks[t].expiryDate)
                    ELSE store[d]]
    /\ nextId' = nextId + 1
    /\ tasks' = [tasks EXCEPT ![t].ret = Resolved(TRUE, ""),
                              ![t].pc = AfterStore(tasks[t], "add_ret")]
    /\ UNCHANGED <<slotVars, uiVars>>
    /\ Silent

\* transaction.update(existingDoc.ref, updatedData), then commit.  The
\* transaction read nothing through transaction.get, so the commit checks only
\* that the document still exists.
AddWriteUpdate(t) ==
    /\ tasks[t].pc = "add_write"
    /\ tasks[t].snap.id # 0
    /\ tasks[t].snap.id \in DOMAIN store
    /\ NewQuantity(tasks[t].snap.quantity, tasks[t].quantity) <= MaxQty
    /\ store' = [store EXCEPT ![tasks[t].snap.id] =
                    UpdatedData(store[tasks[t].snap.id], tasks[t].snap.quantity,
                                tasks[t].quantity, tasks[t].price, tasks[t].expiryDate)]
    /\ tasks' = [tasks EXCEPT ![t].ret = Resolved(TRUE, ""),
                              ![t].pc = AfterStore(tasks[t], "add_ret")]
    /\ UNCHANGED <<nextId, slotVars, uiVars>>
    /\ Silent

\* The document was deleted after the query: the update fails its commit.
\* runTransaction then rejects, or runs the update function again.
AddWriteMissing(t) ==
    /\ tasks[t].pc = "add_write"
    /\ tasks[t].snap.id # 0
    /\ tasks[t].snap.id \notin DOMAIN store
    /\ \/ tasks' = [tasks EXCEPT ![t].ret = Rejected,
                                 ![t].pc = AfterStore(tasks[t], "add_ret")]
       \/ tasks' = [tasks EXCEPT ![t].pc = "add_read"]
    /\ UNCHANGED <<store, nextId, slotVars, uiVars>>
    /\ Silent

(***************************************************************************)
(* removeItem (src/services/inventoryService.ts).                          *)
(***************************************************************************)
\* const itemData = await findItemByName(userId, normalizedItemName)
RemoveFind(t) ==
    /\ tasks[t].pc = "rm_find"
    /\ LET matches == QueryByName(store, ToLowerCase(ToLowerCase(tasks[t].itemName)))
       IN  IF matches = {}
           THEN tasks' = [tasks EXCEPT ![t].ret = Resolved(FALSE, "not found"),
                                       ![t].pc = AfterStore(tasks[t], "rm_ret")]
           ELSE \E d \in matches :
                   tasks' = [tasks EXCEPT
                               ![t].snap = [id |-> d, quantity |-> store[d].quantity],
                               ![t].pc = "rm_txn"]
    /\ UNCHANGED <<store, nextId, slotVars, uiVars>>
    /\ Silent

\* runTransaction: the document is read with transaction.get, so the commit
\* succeeds only on the version read and the function is run again otherwise:
\* read, decision and write are one atomic step.
RemoveTxn(t) ==
    /\ tasks[t].pc = "rm_txn"
    /\ LET d == tasks[t].snap.id
           decision == IF d \in DOMAIN store
                       THEN RemoveDecision(store[d].quantity, tasks[t].quantity)
                       ELSE "gone"
       IN  /\ decision = "update" => store[d].quantity - tasks[t].quantity <= MaxQty
           /\ store' = CASE decision = "delete" ->
                                [e \in DOMAIN store \ {d} |-> store[e]]
                         [] decision = "update" ->
                                [store EXCEPT ![d].quantity =
                                    store[d].quantity - tasks[t].quantity]
                         [] OTHER -> store
           /\ tasks' = [tasks EXCEPT
                 ![t].ret = CASE decision = "gone" -> Resolved(FALSE, "already removed")
                              [] decision = "insufficient" -> Resolved(FALSE, "insufficient")
                              [] decision = "delete" -> Resolved(TRUE, "removed all")
                              [] OTHER -> Resolved(TRUE, "removed"),
                 ![t].pc = AfterStore(tasks[t], "rm_ret")]
    /\ UNCHANGED <<nextId, slotVars, uiVars>>
    /\ Silent

(***************************************************************************)
(* deleteItemsBatch (src/services/inventoryService.ts).                    *)
(***************************************************************************)
BatchCommitLowestOnly(st, ids) ==
    [e \in DOMAIN st \ {d \in ids : \A f \in ids : d <= f} |-> st[e]]

\* The store after batch.commit() of a writeBatch holding batch.delete of
\* every id: all the deletes at once; deleting a document that is not there
\* succeeds.
BatchCommit(st, ids) == [e \in DOMAIN st \ ids |-> st[e]]

\* await batch.commit() resolves; itemIds.forEach then starts
\* deleteNotificationsForItem for every id without awaiting it, and the
\* function returns.
DeleteCommit(t) ==
    /\ tasks[t].pc = "del_commit"
    /\ store' = BatchCommit(store, tasks[t].ids)
    /\ tasks' = [tasks EXCEPT ![t].ret = Resolved(TRUE, ""),
                              ![t].cleanupPending = tasks[t].ids,
                              ![t].pc = AfterStore(tasks[t], "del_ret")]
    /\ UNCHANGED <<nextId, slotVars, uiVars>>
    /\ Silent

\* await batch.commit() rejects: no delete of the batch is applied, the
\* forEach is not reached and deleteItemsBatch rejects.
DeleteRejects(t) ==
    /\ tasks[t].pc = "del_commit"
    /\ tasks' = [tasks EXCEPT ![t].ret = Rejected,
                              ![t].pc = AfterStore(tasks[t], "del_ret")]
    /\ UNCHANGED <<store, nextId, slotVars, uiVars>>
    /\ Silent

\* A deleteNotificationsForItem(userId, id) that deleteItemsBatch started
\* settles: it resolves or rejects, and nothing awaits it.  The
\* notifications are not part of the state.
NotificationCleanup(t) ==
    /\ tasks[t].cleanupPending # {}
    /\ \E d \in tasks[t].cleanupPending, failed \in BOOLEAN :
          tasks' = [tasks EXCEPT
                      ![t].cleanupPending = tasks[t].cleanupPending \ {d},
                      ![t].cleanupFailed =
                          IF failed THEN tasks[t].cleanupFailed \cup {d}
                          ELSE tasks[t].cleanupFailed]
    /\ UNCHANGED <<store, nextId, slotVars, uiVars>>
    /\ Silent

StoreStep(t) ==
    \/ AddRead(t) \/ AddWriteSet(t) \/ AddWriteUpdate(t) \/ AddWriteMissing(t)
    \/ RemoveFind(t) \/ RemoveTxn(t)
    \/ DeleteCommit(t)

(***************************************************************************)
(* The store functions called directly, each call kept once it returned.   *)
(***************************************************************************)
CallAddOrUpdateItem(t) ==
    /\ FreeTask(t)
    /\ \E n \in ItemNames, q \in AddQuantities, p \in Prices :
          tasks' = [tasks EXCEPT ![t] =
                      [IdleTask EXCEPT !.kind = "addOrUpdateItem", !.pc = "add_read", !.direct = TRUE,
                                       !.itemName = n, !.quantity = q, !.price = p,
                                       !.pred = Returned]]
    /\ UNCHANGED <<store, nextId, slotVars, uiVars>>
    /\ Silent

CallRemoveItem(t) ==
    /\ FreeTask(t)
    /\ \E n \in ItemNames, q \in RemoveQuantities :
          tasks' = [tasks EXCEPT ![t] =
                      [IdleTask EXCEPT !.kind = "removeItem", !.pc = "rm_find", !.direct = TRUE,
                                       !.itemName = n, !.quantity = q,
                                       !.pred = Returned]]
    /\ UNCHANGED <<store, nextId, slotVars, uiVars>>
    /\ Silent

\* if (!itemIds.length) return;
CallDeleteItemsBatch(t) ==
    /\ FreeTask(t)
    /\ \E ids \in SUBSET (1..(nextId - 1)) :
          tasks' = [tasks EXCEPT ![t] =
                      [IdleTask EXCEPT !.kind = "deleteItemsBatch", !.direct = TRUE,
                                       !.pc = IF ids = {} THEN "done" ELSE "del_commit",
                                       !.ret = IF ids = {} THEN Resolved(TRUE, "") ELSE Pending,
                                       !.ids = ids,
                                       !.pred = Returned]]
    /\ UNCHANGED <<store, nextId, slotVars, uiVars>>
    /\ Silent

(***************************************************************************)
(* Initial state.                                                          *)
(***************************************************************************)
NoQuantityInfo == [set |-> FALSE, itemName |-> ""]
NoPriceInfo == [set |-> FALSE, itemName |-> "", quantity |-> 0]
NoExpiryInfo == [set |-> FALSE, itemName |-> "", quantity |-> 0, price |-> 0]

SeedItem == NewItemData(SeedName, SeedQuantity, SeedPrice, NoExpiry)

(***************************************************************************)
(* The voice session's resources (InventoryManager.tsx, stopSession,       *)
(* startListeningSession, startAndGreetSession).                           *)
(***************************************************************************)
\* Nothing held: the refs are null, no call is pending.  A resource is
\* "open" while its ref holds an object that has not been stopped, closed or
\* disconnected; orphaned names the kinds of which an open object lost its
\* ref to a later assignment.  event is what the last session step was.
ReleasedAudio ==
    [isListening |-> FALSE, isGreeting |-> FALSE,
     greeting |-> "none", getUserMedia |-> "none",
     outputAudioContext |-> "none", inputAudioContext |-> "none",
     mediaStream |-> "none", scriptProcessor |-> "none",
     liveSession |-> "none", orphaned |-> {}, event |-> "none"]

\* A session that is listening: the greeting played, the microphone is
\* captured, the live connection opened and onopen wired the processor.
ListeningAudio ==
    [ReleasedAudio EXCEPT !.isListening = TRUE, !.isGreeting = TRUE,
                          !.outputAudioContext = "open",
                          !.inputAudioContext = "open",
                          !.mediaStream = "open",
                          !.scriptProcessor = "open",
                          !.liveSession = "open"]

\* The body of stopSession after its guard, on the session record: the
\* greeting source stopped, both flags false, tracks stopped, processor
\* disconnected, both contexts closed, the live session closed, every ref
\* null.  Pending calls and orphaned objects are out of its reach.
StoppedAudio(a) ==
    [a EXCEPT !.isListening = FALSE, !.isGreeting = FALSE,
              !.greeting = IF a.greeting = "playing" THEN "none" ELSE a.greeting,
              !.outputAudioContext = "none", !.inputAudioContext = "none",
              !.mediaStream = "none", !.scriptProcessor = "none",
              !.liveSession = "none"]

\* No chunk received, nothing scheduled, the context's clock at 0.
IdlePlayback ==
    [currentTime |-> 0, audioPlaybackTimeRef |-> 0, arrived |-> 0,
     decoding |-> {}, audioSourcesRef |-> {}, started |-> <<>>,
     interruptedAt |-> 0]

\* The categories a profile may carry: one that needs expiry tracking, one
\* that does not.
CategorySets == {{"grocery"}, {"hardware"}}

Init ==
    /\ store = [d \in {SeedId} |-> SeedItem]
    /\ nextId = SeedId + 1
    /\ tasks = [t \in TaskIds |-> IdleTask]
    /\ awaitingPriceInfoRef = NoPriceInfo
    /\ awaitingQuantityInfoRef = NoQuantityInfo
    /\ awaitingExpiryInfoRef = NoExpiryInfo
    /\ inventoryRef = {SeedId}
    /\ \E c \in CategorySets :
          userProfile = [plan |-> "free", categories |-> c,
                         usage |-> [aiScans |-> 0, promosGenerated |-> 0]]
    /\ sessionProfile = userProfile
    /\ isSessionActiveRef = FALSE
    /\ selectedItemIds = {}
    /\ audio = ReleasedAudio
    /\ playback = IdlePlayback
    /\ pendingUsage = {}
    /\ toolResponse = NoResponse

NextStore ==
    \E t \in TaskIds :
        \/ CallAddOrUpdateItem(t)
        \/ CallRemoveItem(t)
        \/ CallDeleteItemsBatch(t)
        \/ StoreStep(t)

SpecStore == Init /\ [][NextStore]_vars

(***************************************************************************)
(* Claims about the store functions.                                       *)
(***************************************************************************)
IsAdd(t) ==
    /\ tasks[t].kind = "addOrUpdateItem"
    /\ tasks[t].pc = "done"
    /\ tasks[t].ret.status = "resolved"

OnlyCalls(S) == \A u \in TaskIds \ S : tasks[u].pc = "idle"

\* t2 was called after t1 had returned, with the same name, on an inventory
\* that did not hold the name, and nothing else was called.
AddFollowedByAdd(t1, t2) ==
    /\ t1 # t2
    /\ IsAdd(t1) /\ IsAdd(t2)
    /\ t1 \in tasks[t2].pred
    /\ tasks[t1].itemName = tasks[t2].itemName
    /\ ToLowerCase(tasks[t1].itemName) # SeedName
    /\ OnlyCalls({t1, t2})

\* C1: after addOrUpdateItem(name, q1, p1) followed by
\* addOrUpdateItem(name, q2, p2) on an inventory that did not hold the name,
\* exactly one record of the lower-cased name exists, with quantity q1 + q2
\* and price p2.
C1_AddThenAdd ==
    \A t1, t2 \in TaskIds :
        AddFollowedByAdd(t1, t2) =>
            LET matches == QueryByName(store, ToLowerCase(tasks[t1].itemName))
            IN  /\ Cardinality(matches) = 1
                /\ \A d \in DOMAIN store :
                      ToLowerCase(store[d].name) = ToLowerCase(tasks[t1].itemName)
                          => d \in matches
                /\ \A d \in matches :
                      /\ store[d].quantity = tasks[t1].quantity + tasks[t2].quantity
                      /\ store[d].price = tasks[t2].price

C1_Witness ==
    \E t1, t2 \in TaskIds :
        /\ AddFollowedByAdd(t1, t2)
        /\ tasks[t1].itemName = "Milk"
        /\ tasks[t1].price # tasks[t2].price
        /\ tasks[t1].quantity # tasks[t2].quantity

\* C2: two addOrUpdateItem calls for the same stored item (quantity Q), in
\* any interleaving, leave the stored quantity Q + q1 + q2.
C2_NoAddLost ==
    \A t1, t2 \in TaskIds :
        ( /\ t1 # t2
          /\ IsAdd(t1) /\ IsAdd(t2)
          /\ tasks[t1].quantity > 0 /\ tasks[t2].quantity > 0
          /\ ToLowerCase(tasks[t1].itemName) = SeedName
          /\ ToLowerCase(tasks[t2].itemName) = SeedName
          /\ OnlyCalls({t1, t2}) )
        => /\ SeedId \in DOMAIN store
           /\ store[SeedId].quantity =
                 SeedQuantity + tasks[t1].quantity + tasks[t2].quantity

\* C3: at most one record exists per lower-cased item name.
C3_UniqueName ==
    \A d1, d2 \in DOMAIN store :
        ToLowerCase(store[d1].name) = ToLowerCase(store[d2].name) => d1 = d2

\* A step of removeItem task t.
RemoveStepOf(t) ==
    /\ tasks[t].kind = "removeItem"
    /\ tasks'[t].pc # tasks[t].pc

\* C4: removeItem returns a failure result and leaves every record unchanged
\* when no record matches the name or when the quantity to remove is greater
\* than the quantity of the record it matched.
C4_RemoveFails ==
    [][\A t \in TaskIds :
         /\ ( /\ RemoveStepOf(t)
              /\ tasks[t].pc = "rm_find"
              /\ QueryByName(store, ToLowerCase(tasks[t].itemName)) = {} )
            => /\ tasks'[t].pc = "done"
               /\ tasks'[t].ret.status = "resolved"
               /\ ~tasks'[t].ret.success
               /\ store' = store
         /\ ( /\ RemoveStepOf(t)
              /\ tasks[t].pc = "rm_txn"
              /\ tasks[t].snap.id \in DOMAIN store
              /\ tasks[t].quantity > store[tasks[t].snap.id].quantity )
            => /\ tasks'[t].pc = "done"
               /\ tasks'[t].ret.status = "resolved"
               /\ ~tasks'[t].ret.success
               /\ store' = store
      ]_vars

C4_Witness ==
    \E t1, t2 \in TaskIds :
        /\ tasks[t1].kind = "removeItem" /\ tasks[t1].pc = "done"
        /\ tasks[t1].ret.message = "not found"
        /\ tasks[t2].kind = "removeItem" /\ tasks[t2].pc = "done"
        /\ tasks[t2].ret.message = "insufficient"

\* C5: removeItem(name, q) with q the current quantity of the record deletes
\* it: after the removal a lookup by that name finds nothing and the record
\* is not kept with quantity 0.
C5_RemoveAllDeletes ==
    [][\A t \in TaskIds :
         ( /\ RemoveStepOf(t)
           /\ tasks[t].pc = "rm_txn"
           /\ tasks[t].snap.id \in DOMAIN store
           /\ tasks[t].quantity = store[tasks[t].snap.id].quantity )
         => /\ tasks'[t].ret.success
            /\ tasks[t].snap.id \notin DOMAIN store'
            /\ QueryByName(store', ToLowerCase(tasks[t].itemName)) = {}
      ]_vars

\* C6: every stored record has quantity >= 0, whatever integer quantities
\* addOrUpdateItem, removeItem and deleteItemsBatch are called with.
C6_QuantityNonNegative ==
    \A d \in DOMAIN store : store[d].quantity >= 0

(***************************************************************************)
(* The usage gate (src/components/InventoryManager.tsx).                   *)
(***************************************************************************)
\* PLAN_LIMITS.free of ../constants; the values stand for the table's.
MaxInventoryItems == 2
MaxAiScans == 1
MaxPromos == 1

PlanLimit(feature) ==
    CASE feature = "inventoryCount" -> MaxInventoryItems
      [] feature = "aiScans" -> MaxAiScans
      [] OTHER -> MaxPromos

CheckUsageLimitOffByOne(profile, feature, currentCount) ==
    IF profile.plan = "pro" THEN TRUE
    ELSE IF currentCount > PlanLimit(feature) THEN FALSE
    ELSE TRUE

\* checkUsageLimit, for the profile of the render that made the closure.
\* (Its setShowSubscriptionModal(true) has no part in the state of the model.)
CheckUsageLimit(profile, feature, currentCount) ==
    IF profile.plan = "pro" THEN TRUE
    ELSE IF currentCount >= PlanLimit(feature) THEN FALSE
    ELSE TRUE

NeedsExpiryAlways(categories) == TRUE

\* userCategories.some(cat => ['medical', 'grocery', 'sweets'].includes(cat))
NeedsExpiry(categories) ==
    \E cat \in categories : cat \in {"medical", "grocery", "sweets"}

\* /^\d{2}-\d{2}-\d{4}$/.test(expiryDate); a group of <<g1, g2, g3>> is
\* written with two digits when below 100 and with four from 1000 to 9999.
MatchesDateFormat(date) ==
    /\ Len(date) = 3
    /\ date[1] \in 0..99
    /\ date[2] \in 0..99
    /\ date[3] \in 1000..9999

HasPendingAlways(ref) == TRUE

\* if (awaitingQuantityInfoRef.current), and the same test of the other two
\* refs: null is the only falsy value a slot takes.
HasPending(ref) == ref.set

(***************************************************************************)
(* handleToolCall (src/components/InventoryManager.tsx): the code up to    *)
(* the first await of each case.  A case without an await ends in          *)
(* sendToolResponse within the step.                                       *)
(***************************************************************************)
ResponseAsQuery(t, name, message) ==
    [id |-> t, name |-> "queryInventory", result |-> message]

Response(t, name, message) == [id |-> t, name |-> name, result |-> message]

\* onmessage hands the calls of a message to handleToolCall while
\* sessionRef.current holds the live session.
ToolCallArrives(t) == FreeTask(t) /\ audio.liveSession = "open"

InitiateAddItem(t) ==
    /\ ToolCallArrives(t)
    /\ \E itemName \in ItemNames, quantity \in {0} \cup HandlerQuantities :
          IF quantity # 0
          THEN /\ awaitingPriceInfoRef' =
                     [set |-> TRUE, itemName |-> itemName, quantity |-> quantity]
               /\ toolResponse' = Response(t, "initiateAddItem", "How much does one cost?")
               /\ UNCHANGED awaitingQuantityInfoRef
          ELSE /\ awaitingQuantityInfoRef' = [set |-> TRUE, itemName |-> itemName]
               /\ toolResponse' = Response(t, "initiateAddItem", "How many?")
               /\ UNCHANGED awaitingPriceInfoRef
    /\ UNCHANGED <<store, nextId, tasks, awaitingExpiryInfoRef, uiVars>>

ProvideItemQuantity(t) ==
    /\ ToolCallArrives(t)
    /\ \E quantity \in HandlerQuantities :
          IF HasPending(awaitingQuantityInfoRef)
          THEN /\ awaitingPriceInfoRef' =
                     [set |-> TRUE, itemName |-> awaitingQuantityInfoRef.itemName,
                      quantity |-> quantity]
               /\ awaitingQuantityInfoRef' = NoQuantityInfo
               /\ toolResponse' = Response(t, "provideItemQuantity", "And how much is one?")
          ELSE /\ toolResponse' = Response(t, "provideItemQuantity",
                                           "I don't know which item (quantity)")
               /\ UNCHANGED <<awaitingPriceInfoRef, awaitingQuantityInfoRef>>
    /\ UNCHANGED <<store, nextId, tasks, awaitingExpiryInfoRef, uiVars>>

ProvideItemPrice(t) ==
    /\ ToolCallArrives(t)
    /\ \E price \in HandlerPrices :
          IF HasPending(awaitingPriceInfoRef)
          THEN LET info == awaitingPriceInfoRef
               IN  /\ awaitingPriceInfoRef' = NoPriceInfo
                   /\ IF ~CheckUsageLimit(sessionProfile, "inventoryCount",
                                          Cardinality(inventoryRef))
                      THEN /\ toolResponse' = Response(t, "provideItemPrice",
                                                       "Inventory limit reached. Upgrade")
                           /\ UNCHANGED <<tasks, awaitingExpiryInfoRef>>
                      ELSE IF NeedsExpiry(sessionProfile.categories)
                      THEN /\ awaitingExpiryInfoRef' =
                                 [set |-> TRUE, itemName |-> info.itemName,
                                  quantity |-> info.quantity, price |-> price]
                           /\ toolResponse' = Response(t, "provideItemPrice",
                                                       "What is the expiry date?")
                           /\ UNCHANGED tasks
                      ELSE /\ tasks' = [tasks EXCEPT ![t] =
                                 [IdleTask EXCEPT !.kind = "provideItemPrice",
                                                  !.pc = "add_read",
                                                  !.itemName = info.itemName,
                                                  !.quantity = info.quantity,
                                                  !.price = price]]
                           /\ Silent
                           /\ UNCHANGED awaitingExpiryInfoRef
          ELSE /\ toolResponse' = Response(t, "provideItemPrice",
                                           "I don't know which item (price)")
               /\ UNCHANGED <<tasks, awaitingPriceInfoRef, awaitingExpiryInfoRef>>
    /\ UNCHANGED <<store, nextId, awaitingQuantityInfoRef, uiVars>>

ProvideItemExpiryDate(t) ==
    /\ ToolCallArrives(t)
    /\ \E expiryDate \in HandlerDates :
          IF HasPending(awaitingExpiryInfoRef)
          THEN LET info == awaitingExpiryInfoRef
               IN  IF ~MatchesDateFormat(expiryDate)
                   THEN /\ toolResponse' = Response(t, "provideItemExpiryDate",
                                                    "Please provide Day-Month-Year")
                        /\ UNCHANGED tasks
                   ELSE IF ~CheckUsageLimit(sessionProfile, "inventoryCount",
                                            Cardinality(inventoryRef))
                   THEN /\ toolResponse' = Response(t, "provideItemExpiryDate",
                                                    "Inventory limit reached.")
                        /\ UNCHANGED tasks
                   ELSE /\ tasks' = [tasks EXCEPT ![t] =
                              [IdleTask EXCEPT !.kind = "provideItemExpiryDate",
                                               !.pc = "add_read",
                                               !.itemName = info.itemName,
                                               !.quantity = info.quantity,
                                               !.price = info.price,
                                               !.expiryDate = expiryDate]]
                        /\ Silent
          ELSE /\ toolResponse' = Response(t, "provideItemExpiryDate",
                                           "I don't know which item (expiry)")
               /\ UNCHANGED tasks
    /\ UNCHANGED <<store, nextId, slotVars, uiVars>>

RemoveItemTool(t) ==
    /\ ToolCallArrives(t)
    /\ \E itemName \in ItemNames, quantity \in HandlerRemoveQuantities :
          tasks' = [tasks EXCEPT ![t] =
                      [IdleTask EXCEPT !.kind = "removeItem", !.pc = "rm_find",
                                       !.itemName = itemName, !.quantity = quantity]]
    /\ Silent
    /\ UNCHANGED <<store, nextId, slotVars, uiVars>>

QueryInventory(t) ==
    /\ ToolCallArrives(t)
    /\ toolResponse' = Response(t, "queryInventory", "Query acknowledged.")
    /\ UNCHANGED <<store, nextId, tasks, slotVars, uiVars>>

\* The promote branch starts ai.models.generateContent and answers at once;
\* its then-callback, handleIncrementUsage of this closure, stays pending
\* with the usage of the profile the session's handlers closed over.
PerformBulkAction(t) ==
    /\ ToolCallArrives(t)
    /\ \E actionType \in {"delete", "promote", "deselect"} :
          LET currentSelection == selectedItemIds
          IN  IF actionType = "deselect"
              THEN /\ selectedItemIds' = {}
                   /\ toolResponse' = Response(t, "performBulkAction", "Selection cleared.")
                   /\ UNCHANGED <<tasks, pendingUsage>>
              ELSE IF currentSelection = {}
              THEN /\ toolResponse' = Response(t, "performBulkAction", "No items selected.")
                   /\ UNCHANGED <<tasks, selectedItemIds, pendingUsage>>
              ELSE IF actionType = "delete"
              THEN /\ tasks' = [tasks EXCEPT ![t] =
                          [IdleTask EXCEPT !.kind = "performBulkAction",
                                           !.pc = "del_commit",
                                           !.ids = currentSelection]]
                   /\ Silent
                   /\ UNCHANGED <<selectedItemIds, pendingUsage>>
              ELSE /\ toolResponse' = Response(t, "performBulkAction",
                         IF CheckUsageLimit(sessionProfile, "promosGenerated",
                                            sessionProfile.usage.promosGenerated)
                         THEN "Generating promo" ELSE "Promo limit reached.")
                   /\ pendingUsage' =
                         IF CheckUsageLimit(sessionProfile, "promosGenerated",
                                            sessionProfile.usage.promosGenerated)
                         THEN pendingUsage \cup
                                 {[feature |-> "promosGenerated",
                                   usage |-> sessionProfile.usage]}
                         ELSE pendingUsage
                   /\ UNCHANGED <<tasks, selectedItemIds>>
    /\ UNCHANGED <<store, nextId, slotVars, inventoryRef, userProfile,
                   sessionProfile, isSessionActiveRef, audio, playback>>

(***************************************************************************)
(* handleToolCall and handleManualAddItem after their await.               *)
(***************************************************************************)
\* After await addOrUpdateItem(...).  When the store function rejected,
\* handleToolCall ends at the await and handleManualAddItem in its catch.
AddReturn(t) ==
    /\ tasks[t].pc = "add_ret"
    /\ tasks' = [tasks EXCEPT ![t] = IdleTask]
    /\ IF tasks[t].ret.status = "resolved" /\ tasks[t].kind = "provideItemExpiryDate"
       THEN awaitingExpiryInfoRef' = NoExpiryInfo
       ELSE UNCHANGED awaitingExpiryInfoRef
    /\ IF tasks[t].ret.status = "resolved" /\ tasks[t].kind # "handleManualAddItem"
       THEN toolResponse' = Response(t, tasks[t].kind, "Added")
       ELSE Silent
    /\ UNCHANGED <<store, nextId, awaitingPriceInfoRef, awaitingQuantityInfoRef, uiVars>>

\* result = { success: removeResult.success, message: removeResult.message }
RemoveReturn(t) ==
    /\ tasks[t].pc = "rm_ret"
    /\ tasks' = [tasks EXCEPT ![t] = IdleTask]
    /\ toolResponse' = Response(t, "removeItem", tasks[t].ret.message)
    /\ UNCHANGED <<store, nextId, slotVars, uiVars>>

SelectionAfterDeleteKept(ret, selection) == selection

\* The selection after await deleteItemsBatch(...) in the try:
\* setSelectedItemIds(new Set()) is reached when the call resolved.
SelectionAfterDelete(ret, selection) ==
    IF ret.status = "resolved" THEN {} ELSE selection

\* After await deleteItemsBatch(...) in the try of performBulkAction and of
\* handleBulkDelete: setSelectedItemIds(new Set()) when it resolved, the catch
\* when it rejected.  handleBulkDelete shows a toast, the tool answers.
DeleteReturn(t) ==
    /\ tasks[t].pc = "del_ret"
    /\ tasks' = [tasks EXCEPT ![t] = IdleTask]
    /\ selectedItemIds' = SelectionAfterDelete(tasks[t].ret, selectedItemIds)
    /\ IF tasks[t].kind = "performBulkAction"
       THEN toolResponse' = Response(t, "performBulkAction",
                                     IF tasks[t].ret.status = "resolved"
                                     THEN "Deleted items."
                                     ELSE "Failed to delete items.")
       ELSE Silent
    /\ UNCHANGED <<store, nextId, slotVars, inventoryRef, userProfile, sessionProfile,
                   isSessionActiveRef, mediaVars>>

\* handleBulkDelete with a selection: window.confirm, then
\* deleteItemsBatch(user.uid, Array.from(selectedItemIds)).
HandleBulkDelete(t) ==
    /\ FreeTask(t)
    /\ selectedItemIds # {}
    /\ \E confirmed \in BOOLEAN :
          IF confirmed
          THEN tasks' = [tasks EXCEPT ![t] =
                  [IdleTask EXCEPT !.kind = "handleBulkDelete",
                                   !.pc = "del_commit",
                                   !.ids = selectedItemIds]]
          ELSE UNCHANGED tasks
    /\ Silent
    /\ UNCHANGED <<store, nextId, slotVars, uiVars>>

\* A refused manual add shows a toast and returns.
HandleManualAddItem(t) ==
    /\ FreeTask(t)
    /\ \E itemName \in ItemNames, quantity \in HandlerQuantities, price \in HandlerPrices :
          IF CheckUsageLimit(userProfile, "inventoryCount", Cardinality(inventoryRef))
          THEN tasks' = [tasks EXCEPT ![t] =
                  [IdleTask EXCEPT !.kind = "handleManualAddItem",
                                   !.pc = "add_read",
                                   !.itemName = itemName,
                                   !.quantity = quantity,
                                   !.price = price]]
          ELSE UNCHANGED tasks
    /\ Silent
    /\ UNCHANGED <<store, nextId, slotVars, uiVars>>

(***************************************************************************)
(* The rest of the component.                                              *)
(***************************************************************************)
\* The inventory subscription delivers the store's documents and the effect
\* copies them to inventoryRef.current.
InventorySnapshot ==
    /\ inventoryRef # DOMAIN store
    /\ inventoryRef' = DOMAIN store
    /\ Silent
    /\ UNCHANGED <<store, nextId, tasks, slotVars, userProfile, sessionProfile,
                   isSessionActiveRef, selectedItemIds, mediaVars>>

\* handleUpgrade of the subscription modal: updateUserProfileState({ plan: 'pro' })
Upgrade ==
    /\ userProfile.plan = "free"
    /\ userProfile' = [userProfile EXCEPT !.plan = "pro"]
    /\ Silent
    /\ UNCHANGED <<store, nextId, tasks, slotVars, inventoryRef, sessionProfile,
                   isSessionActiveRef, selectedItemIds, mediaVars>>

\* handleMicClick with no session: startAndGreetSession, and the listening
\* session whose callbacks close over the handlers of this render.
StartSession ==
    /\ ~isSessionActiveRef
    /\ audio = ReleasedAudio
    /\ isSessionActiveRef' = TRUE
    /\ sessionProfile' = userProfile
    /\ audio' = ListeningAudio
    /\ Silent
    /\ UNCHANGED <<store, nextId, tasks, slotVars, inventoryRef, userProfile,
                   selectedItemIds, playback, pendingUsage>>

\* stopSession() called with the session record a (the record at the call):
\* if (!isSessionActiveRef.current) return; then the flag, the resources,
\* audioSourcesRef.current.clear() and the three slots.
StopSessionCall(a, event) ==
    IF isSessionActiveRef
    THEN /\ isSessionActiveRef' = FALSE
         /\ audio' = [StoppedAudio(a) EXCEPT !.event = event]
         /\ playback' = [playback EXCEPT !.audioSourcesRef = {}]
         /\ awaitingPriceInfoRef' = NoPriceInfo
         /\ awaitingQuantityInfoRef' = NoQuantityInfo
         /\ awaitingExpiryInfoRef' = NoExpiryInfo
    ELSE /\ audio' = [a EXCEPT !.event = event]
         /\ UNCHANGED <<isSessionActiveRef, playback, slotVars>>

\* handleMicClick while listening: stopSession().
StopSession ==
    /\ isSessionActiveRef
    /\ StopSessionCall(audio, "none")
    /\ Silent
    /\ UNCHANGED <<store, nextId, tasks, inventoryRef, userProfile, sessionProfile,
                   selectedItemIds, pendingUsage>>

\* The table's checkbox of a listed item.
ToggleSelection ==
    /\ \E d \in inventoryRef :
          selectedItemIds' = IF d \in selectedItemIds
                             THEN selectedItemIds \ {d}
                             ELSE selectedItemIds \cup {d}
    /\ Silent
    /\ UNCHANGED <<store, nextId, tasks, slotVars, inventoryRef, userProfile,
                   sessionProfile, isSessionActiveRef, mediaVars>>

(***************************************************************************)
(* The add flow: the voice tools that fill the slots, the manual add, the  *)
(* plan upgrade and the session.                                           *)
(***************************************************************************)
Next ==
    \/ \E t \in 1..MaxHandlers :
          \/ InitiateAddItem(t)
          \/ ProvideItemQuantity(t)
          \/ ProvideItemPrice(t)
          \/ ProvideItemExpiryDate(t)
          \/ HandleManualAddItem(t)
          \/ AddRead(t)
          \/ AddWriteSet(t)
          \/ AddWriteUpdate(t)
          \/ AddReturn(t)
    \/ InventorySnapshot
    \/ Upgrade
    \/ StartSession
    \/ StopSession

Spec == Init /\ [][Next]_vars

\* Every tool of the session and the selection of the table.
NextTools ==
    \/ Next
    \/ \E t \in 1..MaxHandlers :
          \/ RemoveItemTool(t)
          \/ QueryInventory(t)
          \/ PerformBulkAction(t)
          \/ AddWriteMissing(t)
          \/ RemoveFind(t)
          \/ RemoveTxn(t)
          \/ DeleteCommit(t)
          \/ RemoveReturn(t)
          \/ DeleteReturn(t)
    \/ ToggleSelection

SpecTools == Init /\ [][NextTools]_vars

(***************************************************************************)
(* Claims about the slots and the usage gate, checked under Spec.          *)
(***************************************************************************)
PendingSlots ==
    {r \in {"quantity", "price", "expiry"} :
        \/ r = "quantity" /\ awaitingQuantityInfoRef.set
        \/ r = "price" /\ awaitingPriceInfoRef.set
        \/ r = "expiry" /\ awaitingExpiryInfoRef.set}

\* C7: at most one of the three pending slots is set in every reachable
\* state of a voice session.
C7_AtMostOneSlot == Cardinality(PendingSlots) <= 1

\* handleToolCall begins for tool name in this step, as task t.
ToolCallStep(t, name) ==
    /\ tasks[t].pc = "idle"
    /\ \/ toolResponse' # toolResponse /\ toolResponse'.id = t /\ toolResponse'.name = name
       \/ tasks'[t].kind = name

\* The step answers with message and changes neither the store, nor a slot,
\* nor starts a store call.
Refuses(t, name, message) ==
    /\ toolResponse' = Response(t, name, message)
    /\ store' = store
    /\ nextId' = nextId
    /\ tasks' = tasks
    /\ awaitingQuantityInfoRef' = awaitingQuantityInfoRef
    /\ awaitingPriceInfoRef' = awaitingPriceInfoRef
    /\ awaitingExpiryInfoRef' = awaitingExpiryInfoRef

\* C8: a provideItemQuantity, provideItemPrice or provideItemExpiryDate call
\* that arrives while its slot is not set is answered with the failure
\* message of its case and changes neither the inventory nor any of the three
\* slots.
C8_ProvideWithoutSlot ==
    [][\A t \in TaskIds :
         /\ (ToolCallStep(t, "provideItemQuantity") /\ ~awaitingQuantityInfoRef.set)
               => Refuses(t, "provideItemQuantity", "I don't know which item (quantity)")
         /\ (ToolCallStep(t, "provideItemPrice") /\ ~awaitingPriceInfoRef.set)
               => Refuses(t, "provideItemPrice", "I don't know which item (price)")
         /\ (ToolCallStep(t, "provideItemExpiryDate") /\ ~awaitingExpiryInfoRef.set)
               => Refuses(t, "provideItemExpiryDate", "I don't know which item (expiry)")
      ]_vars

\* provideItemPrice was refused for want of a slot in a session that had
\* added nothing.
C8_Witness ==
    /\ isSessionActiveRef
    /\ toolResponse.name = "provideItemPrice"
    /\ toolResponse.result = "I don't know which item (price)"
    /\ ~awaitingPriceInfoRef.set
    /\ DOMAIN store = {SeedId}
    /\ store[SeedId] = SeedItem

\* The item names the set slots hold.
PendingItems ==
    {n \in ItemNames :
        \/ awaitingQuantityInfoRef.set /\ awaitingQuantityInfoRef.itemName = n
        \/ awaitingPriceInfoRef.set /\ awaitingPriceInfoRef.itemName = n
        \/ awaitingExpiryInfoRef.set /\ awaitingExpiryInfoRef.itemName = n}

\* C9: once initiateAddItem for item B is handled while a flow for another
\* item A is pending, the flow for A is gone: no slot holds A any more, so
\* that every later provide call resolves against B.
C9_InitiateReplacesFlow ==
    [][\A t \in TaskIds :
         ToolCallStep(t, "initiateAddItem") => Cardinality(PendingItems') <= 1
      ]_vars

\* C10: an add is refused for the inventory limit only when checkUsageLimit
\* is false for the user's plan and the count: the count that was refused
\* under the free plan passes once the plan is pro.
C10_ProPlanPasses ==
    [][\A t \in TaskIds :
         ( /\ tasks[t].pc = "idle"
           /\ toolResponse' # toolResponse
           /\ toolResponse'.id = t
           /\ toolResponse'.result \in {"Inventory limit reached. Upgrade",
                                        "Inventory limit reached."} )
         => userProfile.plan # "pro"
      ]_vars

(***************************************************************************)
(* The add flow with a store that may be out of reach and with tool names  *)
(* the switch of handleToolCall does not know.                             *)
(***************************************************************************)
\* await getDocs(q) rejects (no connection, permission denied): runTransaction
\* and addOrUpdateItem reject with it.
AddUnavailable(t) ==
    /\ tasks[t].pc = "add_read"
    /\ tasks' = [tasks EXCEPT ![t].ret = Rejected,
                              ![t].pc = AfterStore(tasks[t], "add_ret")]
    /\ UNCHANGED <<store, nextId, slotVars, uiVars>>
    /\ Silent

\* A name without a case: the switch is passed, result keeps its first value.
UnknownTool(t) ==
    /\ ToolCallArrives(t)
    /\ toolResponse' = Response(t, "unknownTool", DefaultResult.message)
    /\ UNCHANGED <<store, nextId, tasks, slotVars, uiVars>>

NextFaults ==
    \/ Next
    \/ \E t \in 1..MaxHandlers :
          \/ AddUnavailable(t)
          \/ UnknownTool(t)

SpecFaults == Init /\ [][NextFaults]_vars

ToolNames ==
    {"initiateAddItem", "provideItemQuantity", "provideItemPrice",
     "provideItemExpiryDate", "removeItem", "queryInventory",
     "performBulkAction", "unknownTool"}

\* C11: every tool call handed to handleToolCall gets its response: the step
\* in which a run of handleToolCall ends calls sendToolResponse with the id
\* of the call.
C11_EveryCallAnswered ==
    [][\A t \in TaskIds :
         ( /\ tasks[t].kind \in ToolNames
           /\ tasks[t].pc # "idle"
           /\ tasks'[t].pc = "idle" )
         => /\ toolResponse'.id = t
            /\ toolResponse'.name = tasks[t].kind
      ]_vars

(***************************************************************************)
(* Scenarios of the voice add flow, checked under Spec.                    *)
(***************************************************************************)
NoSlotPending ==
    /\ ~awaitingQuantityInfoRef.set
    /\ ~awaitingPriceInfoRef.set
    /\ ~awaitingExpiryInfoRef.set

\* The stored name of an item name, written out.
StoredName(itemName) == IF itemName = "Milk" THEN "milk" ELSE "pepsi"

\* The count is under the limit of the free plan.
UnderQuota == Cardinality(inventoryRef) < MaxInventoryItems

\* The step in which the store call of handler t commits.
CommitStepOf(t, kind) ==
    /\ tasks[t].kind = kind
    /\ tasks[t].pc = "add_write"
    /\ tasks'[t].pc = "add_ret"
    /\ tasks'[t].ret.status = "resolved"

\* C12: for a user whose categories need no expiry and who is under quota,
\* initiateAddItem(item) without a quantity, provideItemQuantity(q) and
\* provideItemPrice(p) end with every slot empty and with the store holding
\* the lower-cased item with quantity q, price p and no expiry field.  Step
\* by step: the quantity answer moves the item to the price slot, the price
\* answer empties the slots and calls addOrUpdateItem(item, q, p), and the
\* call creates that record.
C12_VoiceAddCommits ==
    [][\A t \in TaskIds :
         /\ ( /\ ToolCallStep(t, "provideItemQuantity")
              /\ awaitingQuantityInfoRef.set
              /\ ~awaitingPriceInfoRef.set /\ ~awaitingExpiryInfoRef.set )
            => /\ awaitingPriceInfoRef'.set
               /\ awaitingPriceInfoRef'.itemName = awaitingQuantityInfoRef.itemName
               /\ awaitingPriceInfoRef'.quantity \in HandlerQuantities
               /\ ~awaitingQuantityInfoRef'.set /\ ~awaitingExpiryInfoRef'.set
               /\ store' = store
         /\ ( /\ ToolCallStep(t, "provideItemPrice")
              /\ awaitingPriceInfoRef.set
              /\ ~awaitingQuantityInfoRef.set /\ ~awaitingExpiryInfoRef.set
              /\ sessionProfile.categories = {"hardware"}
              /\ UnderQuota )
            => /\ NoSlotPending'
               /\ tasks'[t].kind = "provideItemPrice"
               /\ tasks'[t].pc = "add_read"
               /\ tasks'[t].itemName = awaitingPriceInfoRef.itemName
               /\ tasks'[t].quantity = awaitingPriceInfoRef.quantity
               /\ tasks'[t].price \in HandlerPrices
               /\ tasks'[t].expiryDate = NoExpiry
         /\ ( /\ CommitStepOf(t, "provideItemPrice")
              /\ tasks[t].snap.id = 0 )
            => /\ DOMAIN store' = DOMAIN store \cup {nextId}
               /\ nextId \notin DOMAIN store
               /\ \A d \in DOMAIN store : store'[d] = store[d]
               /\ store'[nextId].name = StoredName(tasks[t].itemName)
               /\ store'[nextId].quantity = tasks[t].quantity
               /\ store'[nextId].price = tasks[t].price
               /\ store'[nextId].expiryDate = NoExpiry
               /\ store'[nextId].expiryTimestamp = <<>>
               /\ store'[nextId].expiryStatus = Undefined
               /\ UNCHANGED slotVars
      ]_vars

\* The price answer of the scenario was committed: milk is stored as the
\* call gave it and no slot is pending.
C12_Witness ==
    \E t \in TaskIds :
        /\ tasks[t].kind = "provideItemPrice"
        /\ tasks[t].pc = "add_ret"
        /\ tasks[t].ret.status = "resolved"
        /\ tasks[t].itemName = "Milk"
        /\ sessionProfile.categories = {"hardware"}
        /\ NoSlotPending
        /\ \E d \in DOMAIN store :
              /\ store[d].name = "milk"
              /\ store[d].quantity = tasks[t].quantity
              /\ store[d].price = tasks[t].price
              /\ store[d].expiryDate = NoExpiry

\* A date DD-MM-YYYY of the calendar, as far as its month goes.
ValidMonth(date) == Len(date) = 3 /\ date[2] \in 1..12

\* C13: while the expiry slot is set, provideItemExpiryDate with a date whose
\* month is invalid (31-13-2025) is answered with the re-prompt and commits
\* nothing: the call never reaches addOrUpdateItem with such a date.
C13_InvalidMonthRejected ==
    [][\A t \in TaskIds :
         ( /\ tasks[t].pc = "idle"
           /\ awaitingExpiryInfoRef.set
           /\ tasks'[t].kind = "provideItemExpiryDate" )
         => ValidMonth(tasks'[t].expiryDate)
      ]_vars

(***************************************************************************)
(* Bulk delete: the selection of the table, the voice tool and the button. *)
(***************************************************************************)
NextBulk ==
    \/ \E t \in 1..MaxHandlers :
          \/ HandleManualAddItem(t)
          \/ AddRead(t)
          \/ AddWriteSet(t)
          \/ AddWriteUpdate(t)
          \/ AddReturn(t)
          \/ PerformBulkAction(t)
          \/ HandleBulkDelete(t)
          \/ DeleteCommit(t)
          \/ DeleteRejects(t)
          \/ DeleteReturn(t)
    \/ InventorySnapshot
    \/ ToggleSelection
    \/ StartSession
    \/ StopSession

SpecBulk == Init /\ [][NextBulk]_vars

BulkDeleteKinds == {"performBulkAction", "handleBulkDelete"}

\* C14: a bulk delete, by the voice tool or by the button, over the
\* selection S: the call is given S, its commit removes exactly the records
\* with an id in S and leaves every other record as it was, and its return
\* leaves the selection empty.
C14_BulkDeleteExact ==
    [][\A t \in TaskIds :
         /\ ( /\ tasks[t].pc = "idle"
              /\ tasks'[t].kind \in BulkDeleteKinds )
            => /\ tasks'[t].ids = selectedItemIds
               /\ tasks'[t].pc = "del_commit"
               /\ store' = store
         /\ ( /\ tasks[t].kind \in BulkDeleteKinds
              /\ tasks[t].pc = "del_commit"
              /\ tasks'[t].pc = "del_ret"
              /\ tasks'[t].ret.status = "resolved" )
            => /\ DOMAIN store' = DOMAIN store \ tasks[t].ids
               /\ \A d \in DOMAIN store' : store'[d] = store[d]
         /\ ( /\ tasks[t].kind \in BulkDeleteKinds
              /\ tasks[t].pc = "del_ret"
              /\ tasks[t].ret.status = "resolved"
              /\ tasks'[t].pc = "idle" )
            => /\ selectedItemIds' = {}
               /\ store' = store
      ]_vars

\* The voice tool deleted the selected first record and left another one.
C14_Witness ==
    /\ toolResponse.name = "performBulkAction"
    /\ toolResponse.result = "Deleted items."
    /\ selectedItemIds = {}
    /\ SeedId \notin DOMAIN store
    /\ DOMAIN store # {}

(***************************************************************************)
(* deleteItemsBatch called directly, with a commit that may reject and     *)
(* with the notification cleanups it leaves behind.                        *)
(***************************************************************************)
NextBatch ==
    \E t \in TaskIds :
        \/ CallAddOrUpdateItem(t)
        \/ AddRead(t)
        \/ AddWriteSet(t)
        \/ AddWriteUpdate(t)
        \/ AddWriteMissing(t)
        \/ CallDeleteItemsBatch(t)
        \/ DeleteCommit(t)
        \/ DeleteRejects(t)
        \/ NotificationCleanup(t)

SpecBatch == Init /\ [][NextBatch]_vars

\* C15: deleteItemsBatch deletes all the given ids at once or none of them,
\* and a notification cleanup that fails neither brings a deleted record
\* back nor changes what the call returned.
C15_BatchAtomic ==
    [][\A t \in TaskIds :
         /\ ( /\ tasks[t].kind = "deleteItemsBatch"
              /\ tasks[t].pc = "del_commit"
              /\ tasks'[t].pc # "del_commit" )
            => \/ /\ tasks'[t].ret.status = "resolved"
                  /\ DOMAIN store' = DOMAIN store \ tasks[t].ids
                  /\ \A d \in DOMAIN store' : store'[d] = store[d]
               \/ /\ tasks'[t].ret.status = "rejected"
                  /\ store' = store
         /\ ( /\ tasks[t].kind = "deleteItemsBatch"
              /\ tasks'[t].cleanupFailed # tasks[t].cleanupFailed )
            => /\ store' = store
               /\ tasks'[t].ret = tasks[t].ret
               /\ tasks'[t].ret.status = "resolved"
               /\ tasks'[t].pc = tasks[t].pc
      ]_vars

\* A batch of two ids was deleted, the call resolved and one of its
\* cleanups failed.
C15_Witness ==
    \E t \in TaskIds :
        /\ tasks[t].kind = "deleteItemsBatch"
        /\ tasks[t].pc = "done"
        /\ tasks[t].ret.status = "resolved"
        /\ Cardinality(tasks[t].ids) = 2
        /\ tasks[t].cleanupFailed # {}
        /\ tasks[t].ids \cap DOMAIN store = {}
        /\ DOMAIN store # {}

(***************************************************************************)
(* handleConfirmReview (src/components/InventoryManager.tsx): 'confirm     *)
(* all' of the draft rows a photograph gave.                               *)
(***************************************************************************)
\* Longest draft the model confirms.
MaxRows == 2

ReviewRow(itemName) ==
    [name |-> itemName, quantity |-> 2, price |-> 10, expiryDate |-> NoExpiry]

\* The drafts: reviewItems as the analysis and the edits of the user left it.
ReviewDrafts ==
    UNION {[1..n -> {ReviewRow(i) : i \in ItemNames}] : n \in 1..MaxRows}

\* The loop of handleConfirmReview at row k of task: the arguments of its
\* await addOrUpdateItem(user.uid, item.name, item.quantity, item.price,
\* item.expiryDate).
AtRow(task, k) ==
    [task EXCEPT !.row = k,
                 !.pc = "add_read",
                 !.itemName = task.rows[k].name,
                 !.quantity = task.rows[k].quantity,
                 !.price = task.rows[k].price,
                 !.expiryDate = task.rows[k].expiryDate,
                 !.snap = NoSnap,
                 !.ret = Pending]

\* if (!user || reviewItems.length === 0) return; then the first row.
HandleConfirmReview(t) ==
    /\ FreeTask(t)
    /\ \E reviewItems \in ReviewDrafts :
          tasks' = [tasks EXCEPT ![t] =
                      AtRow([IdleTask EXCEPT !.kind = "handleConfirmReview",
                                             !.rows = reviewItems], 1)]
    /\ UNCHANGED <<store, nextId, slotVars, uiVars>>
    /\ Silent

\* After the await of a row: the next row when it resolved and rows are
\* left, setReviewItems([]) and the toast after the last row, the catch (a
\* toast) when it rejected.  reviewItems is not part of the state.
ConfirmReviewReturn(t) ==
    /\ tasks[t].pc = "review_ret"
    /\ tasks' = [tasks EXCEPT ![t] =
                    IF /\ tasks[t].ret.status = "resolved"
                       /\ tasks[t].row < Len(tasks[t].rows)
                    THEN AtRow(tasks[t], tasks[t].row + 1)
                    ELSE IdleTask]
    /\ UNCHANGED <<store, nextId, slotVars, uiVars>>
    /\ Silent

NextReview ==
    \/ \E t \in 1..MaxHandlers :
          \/ HandleConfirmReview(t)
          \/ HandleManualAddItem(t)
          \/ AddRead(t)
          \/ AddWriteSet(t)
          \/ AddWriteUpdate(t)
          \/ AddUnavailable(t)
          \/ AddReturn(t)
          \/ ConfirmReviewReturn(t)
    \/ InventorySnapshot

SpecReview == Init /\ [][NextReview]_vars

\* C16: 'confirm all' attempts addOrUpdateItem for every row of the draft:
\* handleConfirmReview ends only after its last row, also when the call of
\* an earlier row failed.
C16_EveryRowAttempted ==
    [][\A t \in TaskIds :
         ( /\ tasks[t].kind = "handleConfirmReview"
           /\ tasks[t].pc = "review_ret"
           /\ tasks'[t].pc = "idle" )
         => tasks[t].row = Len(tasks[t].rows)
      ]_vars

(***************************************************************************)
(* The steps of a voice session: the greeting, the microphone, the live    *)
(* connection and its callbacks.  One greeting and one getUserMedia call   *)
(* are in flight at a time.                                                *)
(***************************************************************************)
\* The session record after a step that is not a stopSession call.
SessionStep(a, event) ==
    /\ audio' = [a EXCEPT !.event = event]
    /\ UNCHANGED <<isSessionActiveRef, playback, slotVars>>

\* Assigning a ref whose object is still open leaves that object behind.
Orphans(a, kind) ==
    IF a[kind] = "none" THEN a.orphaned ELSE a.orphaned \cup {kind}

\* handleMicClick: stopSession() when isListening || isGreeting, else
\* startAndGreetSession up to its await of the TTS call.
HandleMicClick ==
    /\ IF audio.isListening \/ audio.isGreeting
       THEN /\ StopSessionCall(audio, "stop")
            /\ UNCHANGED sessionProfile
       ELSE /\ audio.greeting = "none"
            /\ audio.getUserMedia = "none"
            /\ isSessionActiveRef' = TRUE
            /\ sessionProfile' = userProfile
            /\ audio' = [audio EXCEPT
                           !.isGreeting = TRUE,
                           !.greeting = "tts",
                           !.orphaned = Orphans(audio, "outputAudioContext"),
                           !.outputAudioContext = "open",
                           !.event = "start"]
            /\ UNCHANGED <<playback, slotVars>>
    /\ Silent
    /\ UNCHANGED <<store, nextId, tasks, inventoryRef, userProfile,
                   selectedItemIds, pendingUsage>>

\* The TTS call resolves with audio: the throw when the output context is
\* gone (the catch calls stopSession), else the greeting source starts.
TtsResolves ==
    /\ audio.greeting = "tts"
    /\ IF audio.outputAudioContext = "none"
       THEN StopSessionCall([audio EXCEPT !.greeting = "none"], "ttsFailed")
       ELSE SessionStep([audio EXCEPT !.greeting = "playing"], "none")
    /\ Silent
    /\ UNCHANGED <<store, nextId, tasks, inventoryRef, userProfile, sessionProfile,
                   selectedItemIds, pendingUsage>>

\* The TTS call rejects or carries no audio: catch, stopSession().
TtsFails ==
    /\ audio.greeting = "tts"
    /\ StopSessionCall([audio EXCEPT !.greeting = "none"], "ttsFailed")
    /\ Silent
    /\ UNCHANGED <<store, nextId, tasks, inventoryRef, userProfile, sessionProfile,
                   selectedItemIds, pendingUsage>>

\* source.onended of the greeting: if (isSessionActiveRef.current)
\* startListeningSession(), up to its await of getUserMedia.
GreetingEnded ==
    /\ audio.greeting = "playing"
    /\ IF isSessionActiveRef
       THEN SessionStep([audio EXCEPT
                           !.greeting = "none",
                           !.isListening = TRUE,
                           !.orphaned = Orphans(audio, "inputAudioContext"),
                           !.inputAudioContext = "open",
                           !.getUserMedia = "pending"], "none")
       ELSE SessionStep([audio EXCEPT !.greeting = "none"], "none")
    /\ Silent
    /\ UNCHANGED <<store, nextId, tasks, inventoryRef, userProfile, sessionProfile,
                   selectedItemIds, pendingUsage>>

\* getUserMedia resolves: mediaStreamRef.current is the stream and
\* sessionRef.current the promise of ai.live.connect.
MediaResolves ==
    /\ audio.getUserMedia = "pending"
    /\ SessionStep([audio EXCEPT
                      !.getUserMedia = "none",
                      !.orphaned = Orphans(audio, "mediaStream")
                                      \cup Orphans(audio, "liveSession"),
                      !.mediaStream = "open",
                      !.liveSession = "connecting"], "none")
    /\ Silent
    /\ UNCHANGED <<store, nextId, tasks, inventoryRef, userProfile, sessionProfile,
                   selectedItemIds, pendingUsage>>

\* getUserMedia rejects (permission denied, no device): catch, stopSession().
MediaRejects ==
    /\ audio.getUserMedia = "pending"
    /\ StopSessionCall([audio EXCEPT !.getUserMedia = "none"], "micDenied")
    /\ Silent
    /\ UNCHANGED <<store, nextId, tasks, inventoryRef, userProfile, sessionProfile,
                   selectedItemIds, pendingUsage>>

\* onopen: the script processor, when the input context and the stream are
\* there.
LiveOpen ==
    /\ audio.liveSession = "connecting"
    /\ SessionStep([audio EXCEPT
                      !.liveSession = "open",
                      !.scriptProcessor =
                          IF /\ audio.inputAudioContext = "open"
                             /\ audio.mediaStream = "open"
                          THEN "open" ELSE audio.scriptProcessor], "none")
    /\ Silent
    /\ UNCHANGED <<store, nextId, tasks, inventoryRef, userProfile, sessionProfile,
                   selectedItemIds, pendingUsage>>

\* onerror of the live connection, open or still connecting: stopSession().
LiveError ==
    /\ audio.liveSession \in {"connecting", "open"}
    /\ StopSessionCall(audio,
                       IF audio.liveSession = "open" THEN "onerror"
                                                     ELSE "connectFailed")
    /\ Silent
    /\ UNCHANGED <<store, nextId, tasks, inventoryRef, userProfile, sessionProfile,
                   selectedItemIds, pendingUsage>>

\* onclose: the far end closed the session;
\* isSessionActiveRef.current && stopSession().
LiveClose ==
    /\ audio.liveSession = "open"
    /\ StopSessionCall([audio EXCEPT !.liveSession = "none"], "onclose")
    /\ Silent
    /\ UNCHANGED <<store, nextId, tasks, inventoryRef, userProfile, sessionProfile,
                   selectedItemIds, pendingUsage>>

NextSession ==
    \/ HandleMicClick
    \/ TtsResolves
    \/ TtsFails
    \/ GreetingEnded
    \/ MediaResolves
    \/ MediaRejects
    \/ LiveOpen
    \/ LiveError
    \/ LiveClose
    \/ Upgrade

SpecSession == Init /\ [][NextSession]_vars

\* The exits of a session through an error.
ErrorExits == {"ttsFailed", "micDenied", "onerror", "onclose", "connectFailed"}

\* Microphone tracks stopped, processor disconnected, both contexts closed,
\* the live session closed, and nothing left behind without a ref.
AllReleased ==
    /\ audio.mediaStream = "none"
    /\ audio.scriptProcessor = "none"
    /\ audio.inputAudioContext = "none"
    /\ audio.outputAudioContext = "none"
    /\ audio.liveSession = "none"
    /\ audio.orphaned = {}

\* C17: after every error exit of a voice session (TTS failure, microphone
\* denied, live error, live close, connection failure) every session
\* resource is released.
C17_ErrorExitReleases == audio.event \in ErrorExits => AllReleased

(***************************************************************************)
(* Playback of the synthesized audio (onmessage of the live session).      *)
(* Chunks are numbered in arrival order; times are in units of the output  *)
(* context's clock.                                                        *)
(***************************************************************************)
MaxChunks == 3
MaxTime == 3
ChunkDurations == {1, 2}

Max(a, b) == IF a >= b THEN a ELSE b

\* await decodeAudioData(...): which of the decodes in flight resolves next
\* is not decided by the component.
CanResolve(p, chunk) == chunk \in p.decoding

\* The output context's clock advances.
Tick ==
    /\ audio.outputAudioContext = "open"
    /\ playback.currentTime < MaxTime
    /\ playback' = [playback EXCEPT !.currentTime = @ + 1]
    /\ Silent
    /\ UNCHANGED <<store, nextId, tasks, slotVars, inventoryRef, userProfile,
                   sessionProfile, isSessionActiveRef, selectedItemIds, audio,
                   pendingUsage>>

\* onmessage with an audio part, up to the await of decodeAudioData:
\* audioPlaybackTimeRef.current = Math.max(audioPlaybackTimeRef.current,
\* outputAudioContextRef.current.currentTime).
ChunkArrives ==
    /\ audio.liveSession = "open"
    /\ audio.outputAudioContext = "open"
    /\ playback.arrived < MaxChunks
    /\ playback' = [playback EXCEPT
                      !.arrived = @ + 1,
                      !.decoding = @ \cup {playback.arrived + 1},
                      !.audioPlaybackTimeRef = Max(@, playback.currentTime)]
    /\ Silent
    /\ UNCHANGED <<store, nextId, tasks, slotVars, inventoryRef, userProfile,
                   sessionProfile, isSessionActiveRef, selectedItemIds, audio,
                   pendingUsage>>

\* The source a decoded chunk becomes: start(when) plays from when, or at
\* once when that time has passed, for the buffer's duration.
SourceOf(p, chunk, duration) ==
    [chunk |-> chunk,
     at |-> Max(p.audioPlaybackTimeRef, p.currentTime),
     end |-> Max(p.audioPlaybackTimeRef, p.currentTime) + duration]

\* onmessage after the await: createBufferSource (a TypeError when the
\* output context is gone), sourceNode.start(audioPlaybackTimeRef.current),
\* audioPlaybackTimeRef.current += buffer.duration,
\* audioSourcesRef.current.add(sourceNode).
DecodeDone ==
    /\ \E chunk \in 1..MaxChunks, duration \in ChunkDurations :
          /\ CanResolve(playback, chunk)
          /\ playback' =
                IF audio.outputAudioContext = "none"
                THEN [playback EXCEPT !.decoding = @ \ {chunk}]
                ELSE [playback EXCEPT
                        !.decoding = @ \ {chunk},
                        !.started = Append(@, SourceOf(playback, chunk, duration)),
                        !.audioPlaybackTimeRef = @ + duration,
                        !.audioSourcesRef = @ \cup {chunk}]
    /\ Silent
    /\ UNCHANGED <<store, nextId, tasks, slotVars, inventoryRef, userProfile,
                   sessionProfile, isSessionActiveRef, selectedItemIds, audio,
                   pendingUsage>>

\* The sources of the start log that are still in audioSourcesRef.
QueuedSources(p) ==
    {i \in 1..Len(p.started) : p.started[i].chunk \in p.audioSourcesRef}

\* sourceNode.onended: audioSourcesRef.current.delete(sourceNode).
SourceEnded ==
    /\ \E i \in QueuedSources(playback) :
          /\ playback.started[i].end <= playback.currentTime
          /\ playback' = [playback EXCEPT
                            !.audioSourcesRef = @ \ {playback.started[i].chunk}]
    /\ Silent
    /\ UNCHANGED <<store, nextId, tasks, slotVars, inventoryRef, userProfile,
                   sessionProfile, isSessionActiveRef, selectedItemIds, audio,
                   pendingUsage>>

\* A source after stop(): it plays no further than now.
StopSource(src, now) ==
    [src EXCEPT !.end = IF src.end > now THEN Max(src.at, now) ELSE src.end]

\* onmessage with serverContent.interrupted: every source of
\* audioSourcesRef stopped, the set cleared, audioPlaybackTimeRef.current = 0.
Interrupted ==
    /\ audio.liveSession = "open"
    /\ playback.arrived > playback.interruptedAt
    /\ playback' = [playback EXCEPT
                      !.started = [i \in 1..Len(playback.started) |->
                                     IF i \in QueuedSources(playback)
                                     THEN StopSource(playback.started[i],
                                                     playback.currentTime)
                                     ELSE playback.started[i]],
                      !.audioSourcesRef = {},
                      !.audioPlaybackTimeRef = 0,
                      !.interruptedAt = playback.arrived]
    /\ Silent
    /\ UNCHANGED <<store, nextId, tasks, slotVars, inventoryRef, userProfile,
                   sessionProfile, isSessionActiveRef, selectedItemIds, audio,
                   pendingUsage>>

NextPlayback ==
    \/ StartSession
    \/ Tick
    \/ ChunkArrives
    \/ DecodeDone
    \/ SourceEnded
    \/ Interrupted

SpecPlayback == Init /\ [][NextPlayback]_vars

\* The step handles an interrupted message.
InterruptedStep == playback'.interruptedAt # playback.interruptedAt

\* The step starts the source of chunk.
StartsChunk(chunk) ==
    /\ Len(playback'.started) = Len(playback.started) + 1
    /\ playback'.started[Len(playback'.started)].chunk = chunk

\* C18: handling an interrupted message stops every queued source (none
\* plays past the current time), empties audioSourcesRef and resets the
\* cursor to 0, and no chunk received before the interruption is started
\* after it, a chunk whose decode was in flight included.
C18_InterruptedFlushes ==
    [][ /\ InterruptedStep =>
            /\ playback'.audioSourcesRef = {}
            /\ playback'.audioPlaybackTimeRef = 0
            /\ \A i \in QueuedSources(playback) :
                  playback'.started[i].end <= Max(playback.started[i].at,
                                                  playback.currentTime)
        /\ \A chunk \in 1..MaxChunks :
              chunk <= playback.interruptedAt => ~StartsChunk(chunk)
      ]_vars

\* C19: the chunks play in arrival order on intervals that do not overlap:
\* of two consecutive chunks received since the last interruption, the later
\* one starts at or after the end of the earlier one.
C19_ArrivalOrder ==
    \A i, j \in 1..Len(playback.started) :
        ( /\ playback.started[i].chunk > playback.interruptedAt
          /\ playback.started[j].chunk = playback.started[i].chunk + 1 )
        => playback.started[j].at >= playback.started[i].end

(***************************************************************************)
(* The usage counters (handleIncrementUsage and its callers).              *)
(***************************************************************************)
MaxUsage == 2
MaxPending == 2

Features == {"aiScans", "promosGenerated"}

\* const newCount = (userProfile.usage?.[feature] || 0) + 1;
\* { ...userProfile.usage, [feature]: newCount }, of the closure's profile.
IncrementedUsage(usage, feature) == [usage EXCEPT ![feature] = @ + 1]

\* updateUserProfileState({ usage }): the profile with that usage.
UpdateUserProfileState(profile, usage) == [profile EXCEPT !.usage = usage]

\* handleBulkPromo up to its await of generateContent: the gate on the
\* render's count, a selection, and the call whose continuation holds this
\* render's profile.
HandleBulkPromo ==
    /\ CheckUsageLimit(userProfile, "promosGenerated",
                       userProfile.usage.promosGenerated)
    /\ selectedItemIds # {}
    /\ userProfile.usage.promosGenerated < MaxUsage
    /\ Cardinality(pendingUsage) < MaxPending
    /\ pendingUsage' = pendingUsage \cup {[feature |-> "promosGenerated",
                                          usage |-> userProfile.usage]}
    /\ Silent
    /\ UNCHANGED <<store, nextId, tasks, slotVars, inventoryRef, userProfile,
                   sessionProfile, isSessionActiveRef, selectedItemIds, audio,
                   playback>>

\* handleImageCapture up to the await of its analysis call, in every camera
\* mode: await handleIncrementUsage('aiScans') of the current render, then
\* the call to the model.
HandleImageCapture ==
    /\ userProfile.usage.aiScans < MaxUsage
    /\ Cardinality(pendingUsage) < MaxPending
    /\ userProfile' = UpdateUserProfileState(userProfile,
                          IncrementedUsage(userProfile.usage, "aiScans"))
    /\ pendingUsage' = pendingUsage \cup {[feature |-> "aiScans",
                                          usage |-> userProfile.usage]}
    /\ Silent
    /\ UNCHANGED <<store, nextId, tasks, slotVars, inventoryRef, sessionProfile,
                   isSessionActiveRef, selectedItemIds, audio, playback>>

\* The analysis call of a capture resolves or rejects: the result or a
\* toast, nothing about the usage.
ImageAnalysisSettles ==
    /\ \E call \in pendingUsage :
          /\ call.feature = "aiScans"
          /\ pendingUsage' = pendingUsage \ {call}
    /\ Silent
    /\ UNCHANGED <<store, nextId, tasks, slotVars, inventoryRef, userProfile,
                   sessionProfile, isSessionActiveRef, selectedItemIds, audio,
                   playback>>

\* generateContent resolves: the continuation calls handleIncrementUsage
\* with the profile it captured.
PromoGenerated ==
    /\ \E call \in pendingUsage :
          /\ call.feature = "promosGenerated"
          /\ call.usage[call.feature] < MaxUsage
          /\ pendingUsage' = pendingUsage \ {call}
          /\ userProfile' = UpdateUserProfileState(userProfile,
                                IncrementedUsage(call.usage, call.feature))
    /\ Silent
    /\ UNCHANGED <<store, nextId, tasks, slotVars, inventoryRef, sessionProfile,
                   isSessionActiveRef, selectedItemIds, audio, playback>>

\* generateContent rejects: no increment.
PromoFails ==
    /\ \E call \in pendingUsage :
          /\ call.feature = "promosGenerated"
          /\ pendingUsage' = pendingUsage \ {call}
    /\ Silent
    /\ UNCHANGED <<store, nextId, tasks, slotVars, inventoryRef, userProfile,
                   sessionProfile, isSessionActiveRef, selectedItemIds, audio,
                   playback>>

NextUsage ==
    \/ \E t \in 1..MaxHandlers :
          \/ PerformBulkAction(t)
          \/ DeleteCommit(t)
          \/ DeleteReturn(t)
    \/ HandleBulkPromo
    \/ HandleImageCapture
    \/ ImageAnalysisSettles
    \/ PromoGenerated
    \/ PromoFails
    \/ Upgrade
    \/ ToggleSelection
    \/ InventorySnapshot
    \/ StartSession

SpecUsage == Init /\ [][NextUsage]_vars

\* C20: the in-memory aiScans and promosGenerated counts never decrease in
\* any step, a handleIncrementUsage call from a continuation that captured
\* an older profile included.
C20_UsageNeverDecreases ==
    [][\A feature \in Features :
          userProfile'.usage[feature] >= userProfile.usage[feature]]_vars

\* The AI calls of feature that end in this step.
SettledCalls(feature) ==
    {call \in pendingUsage \ pendingUsage' : call.feature = feature}

\* C21: a usage counter goes up only in the step in which an AI call of its
\* feature ends: never before the call is made, which would count a call
\* that then fails.
C21_IncrementOnSuccess ==
    [][\A feature \in Features :
          userProfile'.usage[feature] > userProfile.usage[feature]
          => SettledCalls(feature) # {}]_vars

(***************************************************************************)
(* The expiry fields of a record under an update.                          *)
(***************************************************************************)
\* expiryDate, expiryTimestamp, expiryStatus and lastAlertedAt of a record.
ExpiryFields(item) ==
    <<item.expiryDate, item.expiryTimestamp, item.expiryStatus, item.lastAlertedAt>>

\* Task t commits the update branch of addOrUpdateItem in this step.
UpdateCommitOf(t) ==
    /\ tasks[t].pc = "add_write"
    /\ tasks[t].snap.id # 0
    /\ tasks'[t].pc # "add_write"
    /\ tasks'[t].ret.status = "resolved"

NextVoice ==
    \/ HandleMicClick
    \/ TtsResolves
    \/ TtsFails
    \/ GreetingEnded
    \/ MediaResolves
    \/ MediaRejects
    \/ LiveOpen
    \/ LiveError
    \/ LiveClose
    \/ \E t \in 1..MaxHandlers :
          \/ InitiateAddItem(t)
          \/ ProvideItemQuantity(t)
          \/ ProvideItemPrice(t)
          \/ ProvideItemExpiryDate(t)
          \/ AddRead(t)
          \/ AddWriteSet(t)
          \/ AddWriteUpdate(t)
          \/ AddReturn(t)

SpecVoice == Init /\ [][NextVoice]_vars

\* C23: whenever the voice session is not active, the three pending slots
\* are empty.
C23_InactiveSlotsEmpty == ~isSessionActiveRef => NoSlotPending

(***************************************************************************)
(* The add flow interrupted by the other tools of the session, up to the   *)
(* expiry question, within one session.                                    *)
(***************************************************************************)
NextInterrupt ==
    \/ \E t \in 1..MaxHandlers :
          \/ InitiateAddItem(t)
          \/ ProvideItemQuantity(t)
          \/ ProvideItemPrice(t)
          \/ AddRead(t)
          \/ AddWriteSet(t)
          \/ AddWriteUpdate(t)
          \/ AddReturn(t)
          \/ RemoveItemTool(t)
          \/ RemoveFind(t)
          \/ RemoveTxn(t)
          \/ RemoveReturn(t)
          \/ QueryInventory(t)
          \/ PerformBulkAction(t)
          \/ DeleteCommit(t)
          \/ DeleteReturn(t)
    \/ ToggleSelection
    \/ StartSession

SpecInterrupt == Init /\ [][NextInterrupt]_vars

\* The tools that are not part of the add flow.
OtherTools == {"removeItem", "queryInventory", "performBulkAction"}

\* The step is one of the handling of a tool call of OtherTools by task t:
\* its start, a step of its store call, or its answer.
OtherToolStep(t) ==
    \/ tasks[t].kind \in OtherTools /\ tasks'[t] # tasks[t]
    \/ tasks'[t].kind \in OtherTools /\ tasks'[t] # tasks[t]
    \/ /\ toolResponse'.id = t
       /\ toolResponse'.name \in OtherTools

ExpiryCategories == {"medical", "grocery", "sweets"}

\* The awaiting-expiry slot is set only for a user with a category of
\* ExpiryCategories.
ExpirySlotOnlyForExpiryUser ==
    awaitingExpiryInfoRef.set => userProfile.categories \cap ExpiryCategories # {}

\* C25: the awaiting-expiry slot is set only for a user with at least one
\* category in {medical, grocery, sweets}; for any other user a
\* provideItemPrice call that finds its slot set and is not refused for the
\* quota starts the store call in the same step and leaves all three slots
\* empty.
C25_ExpiryBranchByCategory ==
    [][ /\ ExpirySlotOnlyForExpiryUser'
        /\ \A t \in TaskIds :
              ( /\ ToolCallStep(t, "provideItemPrice")
                /\ awaitingPriceInfoRef.set
                /\ userProfile.categories \cap ExpiryCategories = {}
                /\ toolResponse'.result # "Inventory limit reached. Upgrade" )
              => /\ tasks'[t].kind = "provideItemPrice"
                 /\ tasks'[t].pc = "add_read"
                 /\ NoSlotPending'
      ]_vars

(***************************************************************************)
(* Tool calls of one message handled side by side: onmessage starts        *)
(* handleToolCall for each call without awaiting the one before, so a call *)
(* runs while another waits for its store write.                           *)
(***************************************************************************)
MaxCalls == 2

NextCalls ==
    \/ \E t \in 1..MaxCalls :
          \/ InitiateAddItem(t)
          \/ ProvideItemPrice(t)
          \/ ProvideItemExpiryDate(t)
          \/ AddRead(t)
          \/ AddWriteSet(t)
          \/ AddWriteUpdate(t)
          \/ AddReturn(t)
    \/ InventorySnapshot
    \/ StartSession

SpecCalls == Init /\ [][NextCalls]_vars

\* Task t starts addOrUpdateItem from a tool call in this step.
VoiceAddStarts(t) ==
    /\ tasks[t].pc = "idle"
    /\ tasks'[t].pc = "add_read"
    /\ tasks'[t].kind \in {"provideItemPrice", "provideItemExpiryDate"}

\* C26: the quota check of a voice add compares the length of inventoryRef,
\* not of the store, with maxInventoryItems: every add a free-plan session
\* lets through found fewer than maxInventoryItems items in inventoryRef,
\* whatever the store held.  So two adds of new items may pass against the
\* same length and leave more than maxInventoryItems records.
C26_QuotaReadsSnapshot ==
    [][\A t \in TaskIds :
          (VoiceAddStarts(t) /\ sessionProfile.plan = "free")
          => Cardinality(inventoryRef) < MaxInventoryItems
      ]_vars

\* Two adds of a free-plan session created a record each after passing the
\* check against the same snapshot, and the store holds more than
\* maxInventoryItems records.
C26_Witness ==
    /\ userProfile.plan = "free"
    /\ sessionProfile.plan = "free"
    /\ inventoryRef = {SeedId}
    /\ Cardinality(DOMAIN store) > MaxInventoryItems
    /\ \A t \in 1..MaxCalls :
          /\ tasks[t].pc = "add_ret"
          /\ tasks[t].ret.status = "resolved"
          /\ tasks[t].snap.id = 0

\* C27: an add flow calls addOrUpdateItem at most once: the provideItemPrice
\* or provideItemExpiryDate call that starts the store call has emptied the
\* slot it read by the time it awaits, so that a second call for the flow,
\* handled during that await, finds no slot and fails.
C27_StoreCallConsumesSlot ==
    [][\A t \in TaskIds :
          VoiceAddStarts(t) =>
             /\ tasks'[t].kind = "provideItemPrice" => ~awaitingPriceInfoRef'.set
             /\ tasks'[t].kind = "provideItemExpiryDate" => ~awaitingExpiryInfoRef'.set
      ]_vars

\* C28: whenever the voice session is not active no microphone stream, no
\* audio context and no live session is open: a startListeningSession
\* resumed after the session was stopped keeps no stream and opens no
\* connection.
C28_InactiveHoldsNothing ==
    ~isSessionActiveRef =>
        /\ audio.mediaStream = "none"
        /\ audio.inputAudioContext = "none"
        /\ audio.outputAudioContext = "none"
        /\ audio.liveSession = "none"


\* A removeItem call that has returned with success.
IsRemove(t) ==
    /\ tasks[t].kind = "removeItem"
    /\ tasks[t].pc = "done"
    /\ tasks[t].ret.status = "resolved"
    /\ tasks[t].ret.success

\* t1 added to and t2 removed from the record the inventory starts with, the
\* removal asked for no more than the record held, and nothing else was
\* called.  The two calls may overlap or follow each other in either order.
AddAndRemove(t1, t2) ==
    /\ IsAdd(t1) /\ IsRemove(t2)
    /\ ToLowerCase(tasks[t1].itemName) = SeedName
    /\ ToLowerCase(tasks[t2].itemName) = SeedName
    /\ tasks[t1].quantity > 0
    /\ tasks[t2].quantity <= SeedQuantity
    /\ OnlyCalls({t1, t2})

\* C29: when addOrUpdateItem(name, qa) and removeItem(name, qr) run
\* concurrently on an existing record of quantity Q >= qr, every interleaving
\* ends with one record of the name holding Q + qa - qr: neither the addition
\* nor the removal is lost.
C29_AddAndRemoveBothApplied ==
    \A t1, t2 \in TaskIds :
        AddAndRemove(t1, t2) =>
            LET matches == QueryByName(store, SeedName)
            IN  /\ Cardinality(matches) = 1
                /\ \A d \in matches :
                      store[d].quantity =
                          SeedQuantity + tasks[t1].quantity - tasks[t2].quantity


\* The answers of a provide call that failed on the quota or on the date
\* format.
FailureMessages ==
    {"Inventory limit reached. Upgrade", "Inventory limit reached.",
     "Please provide Day-Month-Year"}

\* C30: a provideItemPrice or provideItemExpiryDate call that fails while its
\* slot is set (quota exceeded, malformed date) keeps that slot set, so that
\* repeating the call commits without a new initiateAddItem.
C30_FailedProvideKeepsSlot ==
    [][\A t \in TaskIds :
          toolResponse'.result \in FailureMessages =>
             /\ ( /\ ToolCallStep(t, "provideItemPrice")
                  /\ HasPending(awaitingPriceInfoRef) )
                => awaitingPriceInfoRef' = awaitingPriceInfoRef
             /\ ( /\ ToolCallStep(t, "provideItemExpiryDate")
                  /\ HasPending(awaitingExpiryInfoRef) )
                => awaitingExpiryInfoRef' = awaitingExpiryInfoRef
      ]_vars

====
